---- MODULE Spec2Model ----
(***************************************************************************)
(* Coin Flip Simulator (src/src/main.rs): main, CoinFlipStreamer::new,     *)
(* run_parallel, process_trial, export_summary, print_summary_to_terminal. *)
(*                                                                         *)
(* Thread 0 is the main thread; threads 1..jobs are the rayon pool.        *)
(* process_trial is split at every point where another thread can          *)
(* observe or change shared state: each Mutex acquire and release, the     *)
(* load and the store of `*count += 1`, and each piece that writeln!       *)
(* hands to the BufWriter.                                                 *)
(***************************************************************************)
EXTENDS Integers, Sequences, FiniteSets

\* ---------------------------------------------------------------- bounds
MaxTrials == 2
MaxJobs == 2
\* Record writes that the environment lets fail in one run.
MaxWriteFailures == 1

\* -------------------------------------------------------- program values
\* random_range(0..100): the exclusive upper end of the sampled range.
RANGE_END == 100

\* Raw values the model draws: both ends of the range.
RawValues == {v \in {0, 99} : v < RANGE_END}

\* --bias is an f64.  A bias is kept in tenths of a percent; nan marks the
\* f64 NaN, which `"NaN".parse::<f64>()` (and so clap) accepts.
Bias(x) == [nan |-> FALSE, x10 |-> x]
NaN == [nan |-> TRUE, x10 |-> 0]
\* -0.1, 0.0, 49.5, 100.0, 100.1 and NaN.
Biases == {Bias(-1), Bias(0), Bias(495), Bias(1000), Bias(1001), NaN}

\* f64 comparisons: every comparison with NaN is false.
BiasLt(b, x) == ~b.nan /\ b.x10 < x
BiasGt(b, x) == ~b.nan /\ b.x10 > x

\* bias.round() as u32: round half away from zero, then a saturating cast
\* (negative and NaN give 0).
BiasRound(b) ==
    IF b.nan \/ b.x10 < 0 THEN 0 ELSE (b.x10 + 5) \div 10

Main == 0
Threads == 0..MaxJobs

VARIABLES
    args,            \* Args: trials, bias, jobs, no_csv
    mainpc,          \* position of main()
    exit_code,       \* "none" while running, then "0" or "1"
    dir_exists,      \* the directory "output" exists
    csv_created,     \* File::create(csv_path) was performed
    summary_created, \* File::create(summary) was performed
    summary,         \* contents of the summary report (<<>> = nothing written)
    printed,         \* counts shown by print_summary_to_terminal
    csv,             \* pieces accepted by the BufWriter, in order
    csv_mutex,       \* holders of the Mutex<BufWriter<File>>
    head_count, tail_count,
    head_lock, tail_lock,   \* holders of the two Mutex<u64>
    progress,        \* ProgressBar position
    pending,         \* indices of the parallel iterator not handed out yet
    next_trial,      \* loop variable of the sequential for loop
    pc, trial, value, is_head, tmp,  \* per thread: process_trial's frame
    finished,        \* history: trials whose process_trial has returned
    counted,         \* history: counter stores performed by each trial
    write_failed,    \* history: trials whose writeln! returned Err
    drawn            \* history: the raw value drawn for each trial (-1: none)

vars == <<args, mainpc, exit_code, dir_exists, csv_created, summary_created,
          summary, printed, csv, csv_mutex, head_count, tail_count, head_lock,
          tail_lock, progress, pending, next_trial, pc, trial, value, is_head,
          tmp, finished, counted, write_failed, drawn>>

fsVars == <<dir_exists, csv_created, summary_created, summary, printed>>
counterVars == <<head_count, tail_count, head_lock, tail_lock>>
frameVars == <<pc, trial, value, is_head, tmp>>
histVars == <<finished, counted, write_failed, drawn>>

ArgsSet == [trials : 0..MaxTrials, bias : Biases, jobs : 0..MaxJobs,
            no_csv : BOOLEAN]

\* State when main() is entered; the counters are those of
\* CoinFlipStreamer::new.
Init ==
    /\ args \in ArgsSet
    /\ mainpc = "check_trials"
    /\ exit_code = "none"
    /\ dir_exists \in BOOLEAN
    /\ csv_created = FALSE
    /\ summary_created = FALSE
    /\ summary = <<>>
    /\ printed = <<>>
    /\ csv = <<>>
    /\ csv_mutex = {}
    /\ head_count = 0
    /\ tail_count = 0
    /\ head_lock = {}
    /\ tail_lock = {}
    /\ progress = 0
    /\ pending = {}
    /\ next_trial = 1
    /\ pc = [w \in Threads |-> "idle"]
    /\ trial = [w \in Threads |-> 0]
    /\ value = [w \in Threads |-> 0]
    /\ is_head = [w \in Threads |-> FALSE]
    /\ tmp = [w \in Threads |-> 0]
    /\ finished = {}
    /\ counted = [t \in 1..MaxTrials |-> 0]
    /\ write_failed = {}
    /\ drawn = [t \in 1..MaxTrials |-> -1]

\* process::exit(1)
Exit1 ==
    /\ mainpc' = "exited"
    /\ exit_code' = "1"

\* ------------------------------------------------------------------ main
\* if args.trials == 0 { ...; process::exit(1); }
CheckTrials ==
    /\ mainpc = "check_trials"
    /\ IF args.trials = 0
       THEN Exit1
       ELSE mainpc' = "check_bias" /\ UNCHANGED exit_code
    /\ UNCHANGED <<args, fsVars, csv, csv_mutex, counterVars, progress,
                   pending, next_trial, frameVars, histVars>>

\* if args.bias < 0.0 || args.bias > 100.0 { ...; process::exit(1); }
BiasOutOfRange(b) == BiasLt(b, 0) \/ BiasGt(b, 1000)

CheckBias ==
    /\ mainpc = "check_bias"
    /\ IF BiasOutOfRange(args.bias)
       THEN Exit1
       ELSE mainpc' = "create_dir" /\ UNCHANGED exit_code
    /\ UNCHANGED <<args, fsVars, csv, csv_mutex, counterVars, progress,
                   pending, next_trial, frameVars, histVars>>

\* if !output_dir.exists() { if let Err(e) = fs::create_dir(..) { exit(1) } }
CreateOutputDir ==
    /\ mainpc = "create_dir"
    /\ IF dir_exists
       THEN mainpc' = "create_csv" /\ UNCHANGED <<exit_code, dir_exists>>
       ELSE \E ok \in BOOLEAN :
              IF ok
              THEN /\ dir_exists' = TRUE
                   /\ mainpc' = "create_csv"
                   /\ UNCHANGED exit_code
              ELSE Exit1 /\ UNCHANGED dir_exists
    /\ UNCHANGED <<args, csv_created, summary_created, summary, printed, csv,
                   csv_mutex, counterVars, progress, pending, next_trial,
                   frameVars, histVars>>

\* Mutant of WantCsv: the --no-csv flag is ignored.
WantCsv_Always(a) == TRUE

\* let csv_mutex = if !args.no_csv { match File::create(..) {..} } else { None }
WantCsv(a) == ~a.no_csv

\* The header line "Trial,Outcome,RandomValue\n".  It goes into the empty
\* buffer of a new BufWriter, so this writeln! cannot return Err.
HeaderPiece == [k |-> "header", t |-> 0, x |-> 0]

CreateCsv ==
    /\ mainpc = "create_csv"
    /\ IF WantCsv(args)
       THEN \E ok \in BOOLEAN :
              IF ok
              THEN /\ csv_created' = TRUE
                   /\ csv' = <<HeaderPiece>>
                   /\ mainpc' = "run_parallel"
                   /\ UNCHANGED exit_code
              ELSE Exit1 /\ UNCHANGED <<csv_created, csv>>
       ELSE /\ mainpc' = "run_parallel"
            /\ UNCHANGED <<exit_code, csv_created, csv>>
    /\ UNCHANGED <<args, dir_exists, summary_created, summary, printed,
                   csv_mutex, counterVars, progress, pending, next_trial,
                   frameVars, histVars>>

\* csv_mutex is Some exactly when File::create returned Ok.
CsvIsSome == csv_created

\* Mutant of UsePool: `jobs >= 1` in place of `jobs > 1`.
UsePool_Ge(jobs) == jobs >= 1

\* run_parallel: let pb = ProgressBar::new(..); if jobs > 1 { .. } else { .. }
UsePool(jobs) == jobs > 1

RunParallel ==
    /\ mainpc = "run_parallel"
    /\ mainpc' = IF UsePool(args.jobs) THEN "build_pool" ELSE "seq_loop"
    /\ progress' = 0
    /\ UNCHANGED <<args, exit_code, fsVars, csv, csv_mutex, counterVars,
                   pending, next_trial, frameVars, histVars>>

\* rayon::ThreadPoolBuilder::new().num_threads(jobs).build_global()
\*     .unwrap_or_else(|e| { ...; process::exit(1); });
\* followed by the creation of the parallel iterator over 1..=self.trials.
BuildPool ==
    /\ mainpc = "build_pool"
    /\ \E ok \in BOOLEAN :
         IF ok
         THEN /\ pending' = 1..args.trials
              /\ mainpc' = "par_for_each"
              /\ UNCHANGED exit_code
         ELSE Exit1 /\ UNCHANGED pending
    /\ UNCHANGED <<args, fsVars, csv, csv_mutex, counterVars, progress,
                   next_trial, frameVars, histVars>>

\* Mutant of CanLock: lock() returns although another thread holds the guard.
CanLock_NoExclusion(m) == TRUE

\* Mutant of IsHead: `<=` in place of `<`.
IsHead_Le(v, b) == v <= BiasRound(b)

\* Mutant of InRange: the range 1..self.trials in place of 1..=self.trials.
InRange_Exclusive(i, n) == i < n

\* Mutant of Remaining: an index that was handed out stays in the iterator.
Remaining_Keep(p, t) == p

\* Mutant of Advanced: the position moves by two.
Advanced_Two(p) == p + 2

\* Mutant of SinkRelease: the guard `file` outlives the if-let block.
SinkRelease_Keep(w, p) == csv_mutex

\* Mutant of CounterRelease: the counter's guard is never dropped.
CounterRelease_Keep(m, w) == m

\* Mutant of AllJoined: for_each returns as soon as every index is handed
\* out, without waiting for the closure calls still running.
AllJoined_NoWait == pending = {}

\* --------------------------------------------------------- process_trial
\* Mutex::lock returns only while no other thread holds the guard.  No
\* thread panics while it holds one, so no lock is ever poisoned and every
\* lock() returns Ok.
CanLock(m) == m = {}

\* value < bias.round() as u32
IsHead(v, b) == v < BiasRound(b)

\* Entry of process_trial(trial, ..) on thread w:
\* let value = random_range(0..100); let (outcome_str, is_head) = ..
\* Both touch the thread's own frame only, so they are one step with the
\* call.
Generate(w, t) ==
    /\ trial' = [trial EXCEPT ![w] = t]
    /\ \E v \in RawValues :
         /\ value' = [value EXCEPT ![w] = v]
         /\ is_head' = [is_head EXCEPT ![w] = IsHead(v, args.bias)]
         /\ drawn' = [drawn EXCEPT ![t] = v]
    /\ pc' = [pc EXCEPT ![w] = "sink"]

\* for trial in 1..=self.trials: the loop continues while this holds.
InRange(i, n) == i <= n

\* One iteration of the sequential loop calls process_trial on the main
\* thread; the loop is left when the range is exhausted.
SeqNext ==
    /\ mainpc = "seq_loop"
    /\ pc[Main] = "idle"
    /\ IF InRange(next_trial, args.trials)
       THEN /\ Generate(Main, next_trial)
            /\ next_trial' = next_trial + 1
            /\ UNCHANGED mainpc
       ELSE /\ mainpc' = "finish"
            /\ UNCHANGED <<trial, value, is_head, pc, next_trial, drawn>>
    /\ UNCHANGED <<args, exit_code, fsVars, csv, csv_mutex, counterVars,
                   progress, pending, tmp, finished, counted, write_failed>>

PoolThreads == 1..args.jobs

\* The parallel iterator yields each index of 1..=self.trials once: what is
\* left of it after index t has been handed out.
Remaining(p, t) == p \ {t}

\* (1..=self.trials).into_par_iter().for_each(|trial| ..): a pool thread
\* that is not inside the closure takes an index nobody has taken and calls
\* the closure on it.  rayon fixes no order, so any such index may be the
\* one.
ParTake(w) ==
    /\ mainpc = "par_for_each"
    /\ w \in PoolThreads
    /\ pc[w] = "idle"
    /\ \E t \in pending :
         /\ pending' = Remaining(pending, t)
         /\ Generate(w, t)
    /\ UNCHANGED <<args, mainpc, exit_code, fsVars, csv, csv_mutex,
                   counterVars, progress, next_trial, tmp, finished, counted,
                   write_failed>>

\* for_each returns to its caller when every index has been handed out and
\* every closure call has returned.
AllJoined == pending = {} /\ \A w \in PoolThreads : pc[w] = "idle"

ParJoin ==
    /\ mainpc = "par_for_each"
    /\ AllJoined
    /\ mainpc' = "finish"
    /\ UNCHANGED <<args, exit_code, fsVars, csv, csv_mutex, counterVars,
                   progress, pending, next_trial, frameVars, histVars>>

\* pb.finish_with_message("Done"): indicatif moves the position to the
\* bar's length.  run_parallel returns.
Finish ==
    /\ mainpc = "finish"
    /\ progress' = args.trials
    /\ mainpc' = "export_summary"
    /\ UNCHANGED <<args, exit_code, fsVars, csv, csv_mutex, counterVars,
                   pending, next_trial, frameVars, histVars>>

\* if let Some(file_mutex) = csv_mutex: the None branch.  `value` is not
\* read again (a local that is dead is reset, here and below).
SinkSkip(w) ==
    /\ pc[w] = "sink"
    /\ ~CsvIsSome
    /\ pc' = [pc EXCEPT ![w] = "count"]
    /\ value' = [value EXCEPT ![w] = 0]
    /\ UNCHANGED <<args, mainpc, exit_code, fsVars, csv, csv_mutex,
                   counterVars, progress, pending, next_trial, trial,
                   is_head, tmp, histVars>>

\* if let Ok(mut file) = file_mutex.lock()
SinkLock(w) ==
    /\ pc[w] = "sink"
    /\ CsvIsSome
    /\ CanLock(csv_mutex)
    /\ csv_mutex' = csv_mutex \cup {w}
    /\ pc' = [pc EXCEPT ![w] = "write_idx"]
    /\ UNCHANGED <<args, mainpc, exit_code, fsVars, csv, counterVars,
                   progress, pending, next_trial, trial, value, is_head, tmp,
                   histVars>>

OutcomeStr(h) == IF h THEN "H" ELSE "T"

\* writeln!(file, "{},{},{}", trial, outcome_str, value) reaches the
\* BufWriter as a sequence of write_all calls, one per piece of the format
\* string (a separator is kept with the field it precedes).  t is the trial
\* whose call wrote the piece.
PieceOf(w, k) ==
    [k |-> k, t |-> trial[w],
     x |-> CASE k = "idx" -> trial[w]
             [] k = "outcome" -> OutcomeStr(is_head[w])
             [] k = "value" -> value[w]
             [] OTHER -> 0]

PieceKind(p) ==
    CASE p = "write_idx" -> "idx"
      [] p = "write_outcome" -> "outcome"
      [] p = "write_value" -> "value"
      [] OTHER -> "nl"

AfterPiece(p) ==
    CASE p = "write_idx" -> "write_outcome"
      [] p = "write_outcome" -> "write_value"
      [] p = "write_value" -> "write_nl"
      [] OTHER -> "count"

WritePcs == {"write_idx", "write_outcome", "write_value", "write_nl"}

\* The MutexGuard `file` is dropped at the end of the if-let block, right
\* after writeln! has returned.
SinkRelease(w, p) == IF p = "count" THEN csv_mutex \ {w} ELSE csv_mutex

\* One write_all of the writeln!.  It succeeds (the piece is in the buffer),
\* or the flush it needed fails: write_fmt stops there and returns Err,
\* which `let _ =` discards.  The pieces accepted before stay in the buffer.
WritePiece(w) ==
    /\ pc[w] \in WritePcs
    /\ \E ok \in BOOLEAN :
         LET to == IF ok THEN AfterPiece(pc[w]) ELSE "count" IN
         /\ ok \/ Cardinality(write_failed) < MaxWriteFailures
         /\ csv' = IF ok THEN Append(csv, PieceOf(w, PieceKind(pc[w])))
                         ELSE csv
         /\ write_failed' = IF ok THEN write_failed
                                  ELSE write_failed \cup {trial[w]}
         /\ pc' = [pc EXCEPT ![w] = to]
         /\ csv_mutex' = SinkRelease(w, to)
         /\ value' = IF to \in {"write_outcome", "write_value"} THEN value
                      ELSE [value EXCEPT ![w] = 0]
    /\ UNCHANGED <<args, mainpc, exit_code, fsVars, counterVars, progress,
                   pending, next_trial, trial, is_head, tmp, finished,
                   counted, drawn>>

\* let mut heads = self.head_count.lock().unwrap(); and the read of *heads
\* that `*heads += 1` starts with (the same for tails).
CounterLock(w) ==
    /\ pc[w] = "count"
    /\ IF is_head[w]
       THEN /\ CanLock(head_lock)
            /\ head_lock' = head_lock \cup {w}
            /\ tmp' = [tmp EXCEPT ![w] = head_count]
            /\ UNCHANGED tail_lock
       ELSE /\ CanLock(tail_lock)
            /\ tail_lock' = tail_lock \cup {w}
            /\ tmp' = [tmp EXCEPT ![w] = tail_count]
            /\ UNCHANGED head_lock
    /\ pc' = [pc EXCEPT ![w] = "count_store"]
    /\ UNCHANGED <<args, mainpc, exit_code, fsVars, csv, csv_mutex,
                   head_count, tail_count, progress, pending, next_trial,
                   trial, value, is_head, histVars>>

\* *heads += 1 / *tails += 1: the value that is written back.
Incremented(c) == c + 1

\* The MutexGuard `heads` / `tails` is dropped at the end of its block,
\* right after the `+= 1`.
CounterRelease(m, w) == m \ {w}

\* The write of `*heads += 1`, and the drop of the guard at the end of the
\* block.
CounterStore(w) ==
    /\ pc[w] = "count_store"
    /\ IF is_head[w]
       THEN /\ head_count' = Incremented(tmp[w])
            /\ head_lock' = CounterRelease(head_lock, w)
            /\ UNCHANGED <<tail_count, tail_lock>>
       ELSE /\ tail_count' = Incremented(tmp[w])
            /\ tail_lock' = CounterRelease(tail_lock, w)
            /\ UNCHANGED <<head_count, head_lock>>
    /\ counted' = [counted EXCEPT ![trial[w]] = @ + 1]
    /\ tmp' = [tmp EXCEPT ![w] = 0]
    /\ is_head' = [is_head EXCEPT ![w] = FALSE]
    /\ pc' = [pc EXCEPT ![w] = "progress"]
    /\ UNCHANGED <<args, mainpc, exit_code, fsVars, csv, csv_mutex,
                   progress, pending, next_trial, trial, value, finished,
                   write_failed, drawn>>

\* pb.inc(1): the new position.
Advanced(p) == p + 1

\* pb.inc(1), an atomic add; process_trial returns and its frame is gone.
ProgressInc(w) ==
    /\ pc[w] = "progress"
    /\ progress' = Advanced(progress)
    /\ finished' = finished \cup {trial[w]}
    /\ pc' = [pc EXCEPT ![w] = "idle"]
    /\ trial' = [trial EXCEPT ![w] = 0]
    /\ UNCHANGED <<args, mainpc, exit_code, fsVars, csv, csv_mutex,
                   counterVars, pending, next_trial, value, is_head, tmp,
                   counted, write_failed, drawn>>

\* ------------------------------------------------------- after the run
\* sim.export_summary(..): both counters are read under their locks, then
\* the report is created and written; any Err ends main with exit(1).
Snapshot == [total |-> args.trials, heads |-> head_count, tails |-> tail_count]

ExportSummary ==
    /\ mainpc = "export_summary"
    /\ CanLock(head_lock)
    /\ CanLock(tail_lock)
    /\ \E res \in {"ok", "create_err", "write_err"} :
         CASE res = "ok" ->
                /\ summary_created' = TRUE
                /\ summary' = Snapshot
                /\ mainpc' = "flush_csv"
                /\ UNCHANGED exit_code
           [] res = "create_err" ->
                Exit1 /\ UNCHANGED <<summary_created, summary>>
           [] OTHER ->
                Exit1 /\ summary_created' = TRUE /\ UNCHANGED summary
    /\ UNCHANGED <<args, dir_exists, csv_created, printed, csv, csv_mutex,
                   counterVars, progress, pending, next_trial, frameVars,
                   histVars>>

\* if let Some(writer) = csv_mutex { writer.lock().unwrap().flush() .. }
FlushCsv ==
    /\ mainpc = "flush_csv"
    /\ IF CsvIsSome
       THEN /\ CanLock(csv_mutex)
            /\ \E ok \in BOOLEAN :
                 IF ok
                 THEN mainpc' = "print_summary" /\ UNCHANGED exit_code
                 ELSE Exit1
       ELSE mainpc' = "print_summary" /\ UNCHANGED exit_code
    /\ UNCHANGED <<args, fsVars, csv, csv_mutex, counterVars, progress,
                   pending, next_trial, frameVars, histVars>>

\* if !args.quiet { sim.print_summary_to_terminal(..) }
\* args.quiet is read nowhere else, so its value is drawn here.
PrintSummary ==
    /\ mainpc = "print_summary"
    /\ \E quiet \in BOOLEAN :
         IF ~quiet
         THEN /\ CanLock(head_lock)
              /\ CanLock(tail_lock)
              /\ printed' = Snapshot
         ELSE UNCHANGED printed
    /\ mainpc' = "return"
    /\ UNCHANGED <<args, exit_code, dir_exists, csv_created,
                   summary_created, summary, csv, csv_mutex, counterVars,
                   progress, pending, next_trial, frameVars, histVars>>

\* println!("\nDone! ..") and main returns: exit status 0.
Done ==
    /\ mainpc = "return"
    /\ mainpc' = "exited"
    /\ exit_code' = "0"
    /\ UNCHANGED <<args, fsVars, csv, csv_mutex, counterVars, progress,
                   pending, next_trial, frameVars, histVars>>

Next ==
    \/ CheckTrials
    \/ CheckBias
    \/ CreateOutputDir
    \/ CreateCsv
    \/ RunParallel
    \/ BuildPool
    \/ SeqNext
    \/ \E w \in Threads : ParTake(w)
    \/ ParJoin
    \/ Finish
    \/ \E w \in Threads : SinkSkip(w)
    \/ \E w \in Threads : SinkLock(w)
    \/ \E w \in Threads : WritePiece(w)
    \/ \E w \in Threads : CounterLock(w)
    \/ \E w \in Threads : CounterStore(w)
    \/ \E w \in Threads : ProgressInc(w)
    \/ ExportSummary
    \/ FlushCsv
    \/ PrintSummary
    \/ Done

Spec == Init /\ [][Next]_vars

\* The steps of main() outside process_trial.
MainNext ==
    \/ CheckTrials \/ CheckBias \/ CreateOutputDir \/ CreateCsv
    \/ RunParallel \/ BuildPool \/ SeqNext \/ ParJoin \/ Finish
    \/ ExportSummary \/ FlushCsv \/ PrintSummary \/ Done

\* The steps thread w takes for the closure |trial| self.process_trial(..).
ThreadNext(w) ==
    \/ ParTake(w) \/ SinkSkip(w) \/ SinkLock(w) \/ WritePiece(w)
    \/ CounterLock(w) \/ CounterStore(w) \/ ProgressInc(w)

\* The operating system schedules every thread that can run: the main
\* thread (which runs process_trial itself in the sequential loop) and each
\* thread of the pool.  Nothing is assumed of the order in which a Mutex
\* is granted to the threads waiting for it.
FairSpec ==
    /\ Spec
    /\ WF_vars(MainNext \/ ThreadNext(Main))
    /\ \A w \in 1..MaxJobs : WF_vars(ThreadNext(w))

\* ================================================================ claims
\* main is past sim.run_parallel(..).
AfterRunPcs == {"export_summary", "flush_csv", "print_summary", "return"}
RunReturned == mainpc \in AfterRunPcs \/ exit_code = "0"

BiasInRange(b) == ~b.nan /\ 0 <= b.x10 /\ b.x10 <= 1000
ValidConfig == args.trials > 0 /\ BiasInRange(args.bias) /\ args.jobs >= 1

\* C1: for every valid configuration, once run_parallel has returned,
\* head_count + tail_count == trial_count.
C1_CountsSumToTrials ==
    (ValidConfig /\ RunReturned) => head_count + tail_count = args.trials

C1_Witness ==
    /\ ValidConfig /\ mainpc = "return"
    /\ args.trials = MaxTrials /\ args.jobs = MaxJobs /\ ~args.no_csv
    /\ head_count = 1 /\ tail_count = MaxTrials - 1

\* C2: under any interleaving no counter update is lost or doubled:
\* head_count + tail_count is the number of trials whose counter step has
\* completed, and each trial increments a counter exactly once.
CountedTrials == {t \in 1..MaxTrials : counted[t] > 0}

C2_NoLostUpdate ==
    /\ head_count + tail_count = Cardinality(CountedTrials)
    /\ \A t \in 1..MaxTrials : counted[t] <= 1
    /\ \A t \in finished : counted[t] = 1
    /\ \A w \in Threads : pc[w] = "progress" => counted[trial[w]] = 1

\* Two pool threads contend for the same counter: one is between its read
\* and its write, the other has been counted already or waits.
C2_Witness ==
    \E w1, w2 \in Threads :
        /\ w1 # w2
        /\ pc[w1] = "count_store" /\ pc[w2] = "count"
        /\ is_head[w1] = is_head[w2]

\* C3: a failed record write is fatal and immediate: the trial whose write
\* failed is not counted, the run does not complete, and the process does
\* not end with exit status 0.
C3_WriteFailureIsFatal ==
    write_failed # {} =>
        /\ \A t \in write_failed : counted[t] = 0
        /\ mainpc \notin AfterRunPcs
        /\ exit_code # "0"

\* ---- the record file as lines
IsLineEnd(i) == csv[i].k \in {"header", "nl"}
LineEnds == {i \in 1..Len(csv) : IsLineEnd(i)}
LineStarts == {i \in 1..Len(csv) : i = 1 \/ IsLineEnd(i - 1)}
\* Last piece of the line that starts at i (the end of the file when the
\* line is not terminated).
LineEndOf(i) ==
    IF \E j \in LineEnds : j >= i
    THEN CHOOSE j \in LineEnds : j >= i /\ \A k \in LineEnds : k >= i => j <= k
    ELSE Len(csv)
LineAt(i) == SubSeq(csv, i, LineEndOf(i))
DataLineStarts == {i \in LineStarts : csv[i].k # "header"}

\* A line that is one complete `index,outcome_code,raw_value` record of the
\* single trial t.
IsRecordOf(line, t) ==
    /\ Len(line) = 4
    /\ \A j \in 1..4 : line[j].t = t
    /\ line[1].k = "idx" /\ line[1].x = t
    /\ line[2].k = "outcome" /\ line[2].x \in {"H", "T"}
    /\ line[3].k = "value" /\ line[3].x \in 0..(RANGE_END - 1)
    /\ line[4].k = "nl"
IsRecord(line) == \E t \in 1..MaxTrials : IsRecordOf(line, t)

\* C4: with the sink enabled, after the run has completed the record file
\* holds trial_count + 1 lines and its data lines carry exactly the
\* indices 1..trial_count, each once.
C4_RecordFileComplete ==
    (csv_created /\ exit_code = "0") =>
        /\ Cardinality(LineStarts) = args.trials + 1
        /\ \A t \in 1..args.trials :
             Cardinality({i \in DataLineStarts : IsRecordOf(LineAt(i), t)}) = 1

\* C5: at most one thread is inside the sink write at any time, and every
\* line of the record file is one complete record of a single trial.
InSinkWrite == {w \in Threads : pc[w] \in WritePcs}

C5_WholeRecords ==
    /\ Cardinality(InSinkWrite) <= 1
    /\ Cardinality(csv_mutex) <= 1
    /\ \A i \in DataLineStarts :
         (IsLineEnd(LineEndOf(i)) \/ exit_code = "0") => IsRecord(LineAt(i))

\* C6: run_parallel returns only after every trial 1..=trial_count has
\* completed all its steps; the counters are read for the summary and for
\* the terminal only while no thread is processing a trial.
C6_JoinBeforeRead ==
    /\ RunReturned =>
         /\ finished = 1..args.trials
         /\ \A w \in Threads : pc[w] = "idle"
         /\ pending = {}
    /\ summary # <<>> => summary.heads + summary.tails = args.trials
    /\ printed # <<>> => printed.heads + printed.tails = args.trials

C6_Witness ==
    /\ mainpc = "print_summary"
    /\ UsePool(args.jobs) /\ args.trials = MaxTrials
    /\ summary # <<>> /\ summary.heads = 1

\* C7: a trial is Heads iff its raw value is less than round(bias_percent);
\* with bias 100.0 no trial is Tails and with bias 0.0 no trial is Heads.
\* round(b) is stated as the integer nearest to b, a half going up.
Nearest(b) ==
    CHOOSE r \in 0..RANGE_END : -5 < 10 * r - b.x10 /\ 10 * r - b.x10 <= 5
NearestOf == [b \in Biases |-> Nearest(b)]
ClaimedHeads(v, b) == ~b.nan /\ v < NearestOf[b]

C7_HeadsIffBelowBias ==
    /\ \A w \in Threads :
         pc[w] \in {"sink", "write_idx", "write_outcome", "write_value"}
         => (is_head[w] <=> ClaimedHeads(value[w], args.bias))
    /\ \A i \in 1..(Len(csv) - 1) :
         (csv[i].k = "outcome" /\ csv[i + 1].k = "value"
            /\ csv[i + 1].t = csv[i].t)
         => (csv[i].x = "H" <=> ClaimedHeads(csv[i + 1].x, args.bias))
    /\ args.bias = Bias(1000) =>
         tail_count = 0 /\ (RunReturned => head_count = args.trials)
    /\ args.bias = Bias(0) =>
         head_count = 0 /\ (RunReturned => tail_count = args.trials)

\* Bias 100.0, the largest raw value drawn, counted as Heads.
C7_Witness ==
    /\ args.bias = Bias(1000) /\ exit_code = "0"
    /\ head_count = MaxTrials
    /\ \E i \in 1..Len(csv) : csv[i].k = "value" /\ csv[i].x = RANGE_END - 1

\* C8: with --no-csv no record file is created and no trial performs a
\* write, and the run still counts every trial.
C8_SinkDisabled ==
    args.no_csv =>
        /\ ~csv_created
        /\ csv = <<>>
        /\ csv_mutex = {}
        /\ InSinkWrite = {}
        /\ write_failed = {}
        /\ RunReturned => head_count + tail_count = args.trials

C8_Witness ==
    /\ args.no_csv /\ exit_code = "0"
    /\ args.trials = MaxTrials /\ args.jobs = MaxJobs
    /\ head_count = 1

\* C9: with trial_count == 0 or bias_percent outside [0,100] the process
\* exits non-zero before the engine starts: no trial is processed, no
\* counter changes, and no directory, record file or summary is created.
InvalidInput == args.trials = 0 \/ ~BiasInRange(args.bias)

C9_InvalidInputRejected ==
    InvalidInput =>
        /\ mainpc \in {"check_trials", "check_bias", "exited"}
        /\ exit_code # "0"
        /\ \A w \in Threads : pc[w] = "idle"
        /\ head_count = 0 /\ tail_count = 0
        /\ ~csv_created /\ ~summary_created

\* C10: a worker count below 1 is rejected before the engine starts: the
\* process exits non-zero and no trial is processed.
C10_InvalidJobsRejected ==
    args.jobs < 1 =>
        /\ mainpc \notin {"seq_loop", "build_pool", "par_for_each"}
        /\ \A w \in Threads : pc[w] = "idle"
        /\ finished = {}
        /\ exit_code # "0"

\* C11: when the worker pool cannot be built, the process ends with a
\* non-zero status before any trial is processed and leaves no partial
\* state: no counter change, no record file and no summary file.
C11_PoolFailureLeavesNothing ==
    [][(mainpc = "build_pool" /\ mainpc' = "exited") =>
          /\ exit_code' = "1"
          /\ head_count' = 0 /\ tail_count' = 0
          /\ finished' = {}
          /\ \A w \in Threads : pc'[w] = "idle"
          /\ ~csv_created' /\ ~summary_created']_vars

\* C12: each trial performs generate, sink write, counter increment,
\* progress advance in this order; so with the sink enabled, in every
\* state, progress <= head_count + tail_count <= data lines accepted by
\* the sink.
DataLinesAccepted == Cardinality({i \in 1..Len(csv) : csv[i].k = "nl"})

C12_StepOrder ==
    /\ \A w \in Threads :
         /\ pc[w] \in {"sink"} \cup WritePcs =>
              counted[trial[w]] = 0 /\ trial[w] \notin finished
         /\ pc[w] = "progress" =>
              counted[trial[w]] = 1 /\ trial[w] \notin finished
    /\ csv_created =>
         /\ progress <= head_count + tail_count
         /\ head_count + tail_count <= DataLinesAccepted

\* C13: with worker_count == 1 the trials are processed one at a time in
\* the order 1, 2, .., trial_count on the main thread, and the indices
\* written to the record file are strictly increasing.
IdxPositions == {i \in 1..Len(csv) : csv[i].k = "idx"}

C13_SequentialInOrder ==
    args.jobs = 1 =>
        /\ \A w \in Threads \ {Main} : pc[w] = "idle"
        /\ pending = {}
        /\ pc[Main] # "idle" =>
             trial[Main] = next_trial - 1 /\ finished = 1..(next_trial - 2)
        /\ pc[Main] = "idle" => finished = 1..(next_trial - 1)
        /\ \A i, j \in IdxPositions : i < j => csv[i].x < csv[j].x

C13_Witness ==
    /\ args.jobs = 1 /\ args.trials = MaxTrials /\ exit_code = "0"
    /\ Cardinality(IdxPositions) = MaxTrials
    /\ DataLinesAccepted = MaxTrials

\* C14: with worker_count > 1 every index of 1..=trial_count is processed
\* by exactly one worker exactly once, and at most worker_count trials are
\* in progress at any time.
Active == {w \in Threads : pc[w] # "idle"}
InProgress == {trial[w] : w \in Active}

C14_EachIndexOnce ==
    UsePool(args.jobs) =>
        /\ Active \subseteq PoolThreads
        /\ Cardinality(Active) <= args.jobs
        /\ \A w1, w2 \in Active : w1 # w2 => trial[w1] # trial[w2]
        /\ \A t \in 1..MaxTrials : counted[t] <= 1
        /\ pending \cap InProgress = {}
        /\ pending \cap finished = {}
        /\ InProgress \cap finished = {}
        /\ mainpc \in {"par_for_each", "finish"} \cup AfterRunPcs =>
             pending \cup InProgress \cup finished = 1..args.trials
        /\ RunReturned => finished = 1..args.trials

\* Every pool thread is inside process_trial, each on its own index.
C14_Witness ==
    /\ UsePool(args.jobs)
    /\ Active = PoolThreads
    /\ Cardinality(InProgress) = args.jobs

\* C15: the progress counter starts at 0, moves only upwards and by one
\* per completed trial, stays within [0, trial_count], and is trial_count
\* when the run completes.
ProgressInRange ==
    /\ 0 <= progress /\ progress <= args.trials
    /\ progress = Cardinality(finished)
    /\ mainpc \in {"check_trials", "check_bias", "create_dir", "create_csv",
                   "run_parallel", "build_pool"} => progress = 0
    /\ RunReturned => progress = args.trials

ProgressStep ==
    \/ progress' = progress
    \/ /\ progress' = progress + 1
       /\ \E t \in 1..MaxTrials : t \notin finished /\ finished' = finished \cup {t}

C15_ProgressMonotonic == []ProgressInRange /\ [][ProgressStep]_vars

C15_Witness ==
    /\ args.trials = MaxTrials /\ UsePool(args.jobs)
    /\ progress = 1 /\ Active # {}

\* C16: no thread holds two locks at once: the sink lock is held only
\* during the write of one record and is released before a counter lock is
\* taken, and a counter lock is held only for the increment of its field.
LocksHeld(w) ==
    (IF w \in csv_mutex THEN {"csv"} ELSE {})
        \cup (IF w \in head_lock THEN {"head"} ELSE {})
        \cup (IF w \in tail_lock THEN {"tail"} ELSE {})

C16_OneLockAtATime ==
    \A w \in Threads :
        /\ ~(w \in csv_mutex /\ w \in head_lock)
        /\ ~(w \in csv_mutex /\ w \in tail_lock)
        /\ ~(w \in head_lock /\ w \in tail_lock)
        /\ w \in csv_mutex <=> pc[w] \in WritePcs
        /\ w \in head_lock <=> (pc[w] = "count_store" /\ is_head[w])
        /\ w \in tail_lock <=> (pc[w] = "count_store" /\ ~is_head[w])

\* One thread writes a record while another is inside an increment.
C16_Witness ==
    \E w1, w2 \in Threads :
        /\ w1 # w2
        /\ LocksHeld(w1) = {"csv"} /\ pc[w1] = "write_value"
        /\ LocksHeld(w2) = {"head"}

\* C17: under fair scheduling every run with a valid configuration and no
\* failure eventually reaches Completed (run_parallel returns); no
\* reachable state is a deadlock in which a thread waits forever for the
\* sink lock or a counter lock; and the state only moves
\* Idle -> Running -> Completed.
\* Running is the execution of run_parallel; a run that ends with exit
\* status 1 (directory, record file or pool could not be created) is the
\* fatal abort the claim leaves out.
RunningPcs == {"build_pool", "seq_loop", "par_for_each", "finish"}
\* run_parallel has returned, whatever main did afterwards (the export of
\* the summary can still end the process with status 1).
Completed ==
    \/ RunReturned
    \/ mainpc = "exited" /\ args.trials > 0 /\ finished = 1..args.trials
Phase ==
    IF Completed THEN "Completed"
    ELSE IF exit_code = "1" THEN "Aborted"
    ELSE IF mainpc \in RunningPcs THEN "Running"
    ELSE "Idle"

\* The threads holding the lock thread w is about to ask for.
Wanted(w) ==
    IF pc[w] = "sink" /\ CsvIsSome THEN csv_mutex
    ELSE IF pc[w] = "count"
         THEN (IF is_head[w] THEN head_lock ELSE tail_lock)
    ELSE {}

\* Whoever holds a lock that a thread waits for is another thread, and it
\* can take a step.
NoLockDeadlock ==
    \A w \in Threads :
        \A h \in Wanted(w) : h # w /\ ENABLED ThreadNext(h)

PhaseStep ==
    \/ Phase' = Phase
    \/ Phase = "Idle" /\ Phase' \in {"Running", "Aborted"}
    \/ Phase = "Running" /\ Phase' \in {"Completed", "Aborted"}

C17_EventuallyCompleted ==
    /\ [](ValidConfig => <>(Phase \in {"Completed", "Aborted"}))
    /\ []((ValidConfig /\ mainpc \in {"seq_loop", "par_for_each"})
            => <>(Phase = "Completed"))
    /\ [](ValidConfig => NoLockDeadlock)
    /\ [][ValidConfig => PhaseStep]_vars

\* A run without failure in which a thread waits for the sink lock while
\* another thread holds it.
C17_Witness ==
    /\ ValidConfig /\ write_failed = {} /\ Phase = "Running"
    /\ \E w \in Threads : pc[w] = "sink" /\ Wanted(w) # {}

\* C18: aggregation does not depend on the execution order: the final
\* counts are a function of the raw value drawn for each trial index alone,
\* so the pool path ends, under every interleaving, with the counts the
\* sequential path has for the same raw values.
HeadsDrawn == {t \in 1..args.trials : ClaimedHeads(drawn[t], args.bias)}

C18_OrderIndependent ==
    RunReturned =>
        /\ \A t \in 1..args.trials : drawn[t] \in 0..(RANGE_END - 1)
        /\ head_count = Cardinality(HeadsDrawn)
        /\ tail_count = args.trials - Cardinality(HeadsDrawn)

\* A pool run in which the later index finished first, with one trial
\* Heads and one Tails.
C18_Witness ==
    /\ UsePool(args.jobs) /\ args.trials = MaxTrials
    /\ mainpc = "par_for_each"
    /\ finished = {MaxTrials} /\ head_count = 1 /\ drawn[1] = RANGE_END - 1
====
